---------------------------- MODULE Spec2Model ----------------------------
(***************************************************************************)
(* A model of google_trends.py: the TrendsRequest input schema (one        *)
(* validator per field), the per-invocation pytrends client, and the two   *)
(* tools keyword_suggestions and related_queries with their per-keyword    *)
(* loops.                                                                  *)
(*                                                                         *)
(* Python strings that the code inspects character by character (strip,    *)
(* startswith, re.fullmatch, int) are sequences of one-character strings.  *)
(* A value that may be None is a sequence of length at most one: <<>> is   *)
(* None and <<x>> is x.  A dict is a sequence of <<key, value>> pairs in   *)
(* insertion order.                                                        *)
(***************************************************************************)
EXTENDS Integers, Sequences, FiniteSets, TLC

VARIABLES
    field,      \* SpecField: the TrendsRequest field under validation
    arg,        \* SpecField: the raw value handed to the field's validation
    ret,        \* SpecField: <<>> before validation, then <<outcome>>
    inv,        \* tool invocations: id -> the frame of that call
    clients,    \* every TrendReq object created so far, by handle
    service     \* the external Google Trends service: keyword -> behaviour

vars == <<field, arg, ret, inv, clients, service>>

(***************************************************************************)
(* Bounds of the model.                                                    *)
(***************************************************************************)
\* Raw keyword lists are a filler prefix followed by up to MaxTail pool entries.
MaxTail == 3
\* Timezone offsets tried are -TzSpan .. TzSpan.
TzSpan == 900
\* The number inside a relative timeframe has up to MaxDigits digits.
MaxDigits == 2
\* The service returns up to MAX_RESULTS_PER_SECTION + MaxExcess records.
MaxExcess == 5

(***************************************************************************)
(* Configuration.                                                          *)
(***************************************************************************)
MAX_RESULTS_PER_SECTION == 10

\* Field(min_items=1, max_items=5) of kw_list
min_items == 1
max_items == 5

(***************************************************************************)
(* Python values.                                                          *)
(***************************************************************************)
None == <<>>
Some(x) == <<x>>

\* A function that returns v, and one that raises ValueError(msg).
Return(v) == [ok |-> TRUE, value |-> v]
Raise(msg) == [ok |-> FALSE, error |-> msg]

Min(a, b) == IF a < b THEN a ELSE b

\* s[:n]
Slice(s, n) == SubSeq(s, 1, Min(n, Len(s)))

(***************************************************************************)
(* Characters and str methods.                                             *)
(***************************************************************************)
Whitespace == {" ", "\t", "\n"}
Digit == {"0", "1", "2", "3", "4", "5", "6", "7", "8", "9"}
Upper == {"A", "B", "C", "D", "E", "F", "G", "H", "I", "J", "K", "L", "M",
          "N", "O", "P", "Q", "R", "S", "T", "U", "V", "W", "X", "Y", "Z"}
Lower == {"a", "b", "c", "d", "e", "f", "g", "h", "i", "j", "k", "l", "m",
          "n", "o", "p", "q", "r", "s", "t", "u", "v", "w", "x", "y", "z"}

RECURSIVE lstrip(_)
lstrip(s) ==
    IF s # <<>> /\ Head(s) \in Whitespace THEN lstrip(Tail(s)) ELSE s

RECURSIVE rstrip(_)
rstrip(s) ==
    IF s # <<>> /\ s[Len(s)] \in Whitespace
    THEN rstrip(SubSeq(s, 1, Len(s) - 1))
    ELSE s

\* str.strip()
strip(s) == rstrip(lstrip(s))

\* str.startswith(p)
startswith(s, p) == Len(s) >= Len(p) /\ SubSeq(s, 1, Len(p)) = p

DigitValue(c) ==
    CASE c = "0" -> 0 [] c = "1" -> 1 [] c = "2" -> 2 [] c = "3" -> 3
      [] c = "4" -> 4 [] c = "5" -> 5 [] c = "6" -> 6 [] c = "7" -> 7
      [] c = "8" -> 8 [] c = "9" -> 9

\* int(s) of a non-empty string of decimal digits
RECURSIVE int(_)
int(s) ==
    IF s = <<>> THEN 0
    ELSE 10 * int(SubSeq(s, 1, Len(s) - 1)) + DigitValue(s[Len(s)])

(***************************************************************************)
(* re.fullmatch.  A pattern is a sequence of items; an item matches        *)
(* between lo and hi characters of the class cls (hi = 0: no upper limit). *)
(***************************************************************************)
Lit(chars) == [i \in 1..Len(chars) |-> [cls |-> {chars[i]}, lo |-> 1, hi |-> 1]]
Rep(cls, lo, hi) == << [cls |-> cls, lo |-> lo, hi |-> hi] >>
Plus(cls) == Rep(cls, 1, 0)

RECURSIVE MatchFrom(_, _, _, _)
MatchFrom(pat, s, i, j) ==
    IF i > Len(pat) THEN j = Len(s) + 1
    ELSE LET it == pat[i]
             rest == Len(s) - j + 1
             most == IF it.hi = 0 THEN rest ELSE Min(it.hi, rest)
         IN  \E k \in it.lo..most :
                /\ \A q \in j..(j + k - 1) : s[q] \in it.cls
                /\ MatchFrom(pat, s, i + 1, j + k)

fullmatch(pat, s) == MatchFrom(pat, s, 1, 1)

\* m.group(1) of a pattern  prefix (\d+) suffix
group1(s, prefix, suffix) == SubSeq(s, Len(prefix) + 1, Len(s) - Len(suffix))

(***************************************************************************)
(* The literals and regular expressions of the validators.                 *)
(***************************************************************************)
TopicPrefix == <<"/", "m", "/">>
TODAY_5Y == <<"t", "o", "d", "a", "y", " ", "5", "-", "y">>
ALL == <<"a", "l", "l">>
TodaySp == <<"t", "o", "d", "a", "y", " ">>
NowSp == <<"n", "o", "w", " ">>
DashM == <<"-", "m">>
DashD == <<"-", "d">>
DashH == <<"-", "H">>

\* r"/m/[A-Za-z0-9_-]+"
TOPIC_ID_RE == Lit(TopicPrefix) \o Plus(Upper \cup Lower \cup Digit \cup {"_", "-"})

\* \d{4}-\d{2}-\d{2}
DatePat == Rep(Digit, 4, 4) \o Lit(<<"-">>) \o Rep(Digit, 2, 2)
              \o Lit(<<"-">>) \o Rep(Digit, 2, 2)
\* \d{4}-\d{2}-\d{2}T\d{2}
DateHourPat == DatePat \o Lit(<<"T">>) \o Rep(Digit, 2, 2)

\* r"\d{4}-\d{2}-\d{2} \d{4}-\d{2}-\d{2}"
DATE_RANGE_RE == DatePat \o Lit(<<" ">>) \o DatePat
\* r"\d{4}-\d{2}-\d{2}T\d{2} \d{4}-\d{2}-\d{2}T\d{2}"
DATE_HOUR_RANGE_RE == DateHourPat \o Lit(<<" ">>) \o DateHourPat
\* r"today (\d+)-m", r"now (\d+)-d", r"now (\d+)-H"
TODAY_M_RE == Lit(TodaySp) \o Plus(Digit) \o Lit(DashM)
NOW_D_RE == Lit(NowSp) \o Plus(Digit) \o Lit(DashD)
NOW_H_RE == Lit(NowSp) \o Plus(Digit) \o Lit(DashH)

\* r"[A-Z]{2}" and r"[A-Z]{2}-[A-Z]{2,5}"
GEO_COUNTRY_RE == Rep(Upper, 2, 2)
GEO_REGION_RE == Rep(Upper, 2, 2) \o Lit(<<"-">>) \o Rep(Upper, 2, 5)

(***************************************************************************)
(* The messages of the ValueErrors the validators raise.                   *)
(***************************************************************************)
ErrEmptyKeyword == "Keywords must be non-empty strings"
ErrTopicId == "Invalid Google Trends topic ID"
ErrCat == "Category ID must be a non-negative integer"
ErrGeo == "Invalid geo format"
ErrTzMultiple == "Timezone offset must be a multiple of 15 minutes"
ErrTzRange == "Timezone offset must be between -720 and +840 minutes"
ErrMonths == "today #-m supports only 1, 3, or 12 months"
ErrDays == "now #-d supports only 1 or 7 days"
ErrHours == "now #-H supports only 1 or 4 hours"
ErrTimeframe == "Invalid timeframe format for Google Trends"
\* pydantic's own errors
ErrTooShort == "List should have at least 1 item"
ErrTooLong == "List should have at most 5 items"
ErrLiteral == "Input should be '', 'images', 'news', 'youtube' or 'froogle'"
ErrMissing == "Field required"
ErrExtra == "Extra inputs are not permitted"

(***************************************************************************)
(* The field validators of TrendsRequest.                                  *)
(***************************************************************************)
\* Mutant of kw_loop: a keyword already seen is appended again.
RECURSIVE kw_loop_keeps_duplicates(_, _, _, _)
kw_loop_keeps_duplicates(v, i, seen, deduped) ==
    IF i > Len(v) THEN Return(deduped)
    ELSE LET kw == strip(v[i])
         IN  IF kw = <<>> THEN Raise(ErrEmptyKeyword)
             ELSE IF startswith(kw, TopicPrefix) /\ ~fullmatch(TOPIC_ID_RE, kw)
                  THEN Raise(ErrTopicId)
             ELSE kw_loop_keeps_duplicates(v, i + 1, seen \cup {kw}, Append(deduped, kw))

\* The loop of validate_kw_list from its i-th element on.
RECURSIVE kw_loop(_, _, _, _)
kw_loop(v, i, seen, deduped) ==
    IF i > Len(v) THEN Return(deduped)
    ELSE LET kw == strip(v[i])
         IN  IF kw = <<>> THEN Raise(ErrEmptyKeyword)
             ELSE IF startswith(kw, TopicPrefix) /\ ~fullmatch(TOPIC_ID_RE, kw)
                  THEN Raise(ErrTopicId)
             ELSE IF kw \notin seen
                  THEN kw_loop(v, i + 1, seen \cup {kw}, Append(deduped, kw))
             ELSE kw_loop(v, i + 1, seen, deduped)

validate_kw_list(v) == kw_loop(v, 1, {}, <<>>)

\* The kw_list field: the length constraints of Field(...), then the validator.
kw_list_field(v) ==
    IF Len(v) < min_items THEN Raise(ErrTooShort)
    ELSE IF Len(v) > max_items THEN Raise(ErrTooLong)
    ELSE validate_kw_list(v)

validate_cat(v) ==
    IF v # None /\ v[1] < 0 THEN Raise(ErrCat) ELSE Return(v)

validate_geo(v) ==
    IF v = None THEN Return(v)
    ELSE IF fullmatch(GEO_COUNTRY_RE, v[1]) THEN Return(v)
    ELSE IF fullmatch(GEO_REGION_RE, v[1]) THEN Return(v)
    ELSE Raise(ErrGeo)

\* Mutant of validate_tz: the lower end of the range is excluded.
validate_tz_exclusive(v) ==
    IF v % 15 # 0 THEN Raise(ErrTzMultiple)
    ELSE IF ~(-720 < v /\ v <= 840) THEN Raise(ErrTzRange)
    ELSE Return(v)

validate_tz(v) ==
    IF v % 15 # 0 THEN Raise(ErrTzMultiple)
    ELSE IF ~(-720 <= v /\ v <= 840) THEN Raise(ErrTzRange)
    ELSE Return(v)

\* Mutant of validate_timeframe: an unsupported number of days is reported
\* with the message of the hours form.
validate_timeframe_wrong_message(raw) ==
    LET v == strip(raw)
    IN  IF v \in {TODAY_5Y, ALL} THEN Return(v)
        ELSE IF fullmatch(DATE_RANGE_RE, v) THEN Return(v)
        ELSE IF fullmatch(DATE_HOUR_RANGE_RE, v) THEN Return(v)
        ELSE IF fullmatch(TODAY_M_RE, v)
             THEN IF int(group1(v, TodaySp, DashM)) \in {1, 3, 12}
                  THEN Return(v) ELSE Raise(ErrMonths)
        ELSE IF fullmatch(NOW_D_RE, v)
             THEN IF int(group1(v, NowSp, DashD)) \in {1, 7}
                  THEN Return(v) ELSE Raise(ErrHours)
        ELSE IF fullmatch(NOW_H_RE, v)
             THEN IF int(group1(v, NowSp, DashH)) \in {1, 4}
                  THEN Return(v) ELSE Raise(ErrHours)
        ELSE Raise(ErrTimeframe)

validate_timeframe(raw) ==
    LET v == strip(raw)
    IN  IF v \in {TODAY_5Y, ALL} THEN Return(v)
        ELSE IF fullmatch(DATE_RANGE_RE, v) THEN Return(v)
        ELSE IF fullmatch(DATE_HOUR_RANGE_RE, v) THEN Return(v)
        ELSE IF fullmatch(TODAY_M_RE, v)
             THEN IF int(group1(v, TodaySp, DashM)) \in {1, 3, 12}
                  THEN Return(v) ELSE Raise(ErrMonths)
        ELSE IF fullmatch(NOW_D_RE, v)
             THEN IF int(group1(v, NowSp, DashD)) \in {1, 7}
                  THEN Return(v) ELSE Raise(ErrDays)
        ELSE IF fullmatch(NOW_H_RE, v)
             THEN IF int(group1(v, NowSp, DashH)) \in {1, 4}
                  THEN Return(v) ELSE Raise(ErrHours)
        ELSE Raise(ErrTimeframe)

\* Mutant of GPROP_VALUES: the scopes under their product names.
GPROP_VALUES_product_names == {"", "images", "news", "video", "shopping"}

\* gprop: Literal["", "images", "news", "youtube", "froogle"]
GPROP_VALUES == {"", "images", "news", "youtube", "froogle"}

gprop_field(v) ==
    IF v \in GPROP_VALUES THEN Return(v) ELSE Raise(ErrLiteral)


\* The validation pydantic runs for one field of TrendsRequest.
FieldValidate(f, v) ==
    CASE f = "kw_list" -> kw_list_field(v)
      [] f = "cat" -> validate_cat(v)
      [] f = "geo" -> validate_geo(v)
      [] f = "tz" -> validate_tz(v)
      [] f = "timeframe" -> validate_timeframe(v)
      [] f = "gprop" -> gprop_field(v)

(***************************************************************************)
(* Raw inputs tried for each field.                                        *)
(***************************************************************************)
\* All sequences over S of length at most n.
SeqsUpTo(S, n) == UNION {[1..k -> S] : k \in 0..n}

Tea == <<"T", "e", "a">>
TopicId == <<"/", "m", "/", "0", "_", "a", "-", "Z">>
KwPool ==
    { Tea, <<" ">> \o Tea \o <<"\t">>, TopicId, <<" ">> \o TopicId,
      <<"/", "m", "/", "a", "!">>, TopicPrefix, <<" ", "\t">>, <<>> }
\* Distinct valid keywords that lengthen a list to and past max_items.
KwFillers ==
    << <<"R", "i", "c", "e">>, <<"C", "o", "r", "n">>, <<"M", "i", "l", "k">> >>
KwListInputs ==
    {SubSeq(KwFillers, 1, n) \o w :
        n \in 0..Len(KwFillers), w \in SeqsUpTo(KwPool, MaxTail)}

CatInputs == {None, Some(0), Some(71), Some(-1)}

GeoInputs ==
    { None, Some(<<"U", "S">>), Some(<<"U", "S", "-", "A", "L">>),
      Some(<<"G", "B", "-", "E", "N", "G">>), Some(<<"u", "s", "a">>),
      Some(<<"U", "S", "_", "A", "L">>), Some(<<"U", "S", "-", "A">>),
      Some(<<"U", "S", "-", "A", "B", "C", "D", "E", "F">>), Some(<<>>) }

TzInputs == (-TzSpan)..TzSpan

Pads == {<<>>, <<" ">>}
TfDigits == {"0", "1", "2", "3", "4", "5", "7"}
TfNumbers == SeqsUpTo(TfDigits, MaxDigits)
TfHeads == {TodaySp, NowSp}
TfTails == {DashM, DashD, DashH, <<"-", "y">>, <<"-", "h">>}
TfDates ==
    { <<"2", "0", "1", "6", "-", "1", "2", "-", "1", "4">>,
      <<"2", "0", "1", "7", "-", "0", "1", "-", "2", "5">>,
      <<"2", "0", "1", "6", "-", "1", "-", "1", "4">> }
TfHours == {<<>>, <<"T", "0", "9">>, <<"T", "9">>}
TfBodies ==
    {TODAY_5Y, ALL, <<>>, ALL \o <<" ">> \o ALL}
      \cup {h \o n \o t : h \in TfHeads, n \in TfNumbers, t \in TfTails}
      \cup {d \o h : d \in TfDates, h \in TfHours}
      \cup {d1 \o h1 \o <<" ">> \o d2 \o h2 :
                d1 \in TfDates, h1 \in TfHours, d2 \in TfDates, h2 \in TfHours}
TimeframeInputs == {l \o b \o r : l \in Pads, b \in TfBodies, r \in Pads}

GpropInputs ==
    {"", "images", "news", "youtube", "froogle", "video", "shopping", "web", "Images"}

Fields == {"kw_list", "cat", "geo", "tz", "timeframe", "gprop"}

FieldInputs(f) ==
    CASE f = "kw_list" -> KwListInputs
      [] f = "cat" -> CatInputs
      [] f = "geo" -> GeoInputs
      [] f = "tz" -> TzInputs
      [] f = "timeframe" -> TimeframeInputs
      [] f = "gprop" -> GpropInputs

(***************************************************************************)
(* SpecField: one field of TrendsRequest is given a raw value and          *)
(* validated.                                                              *)
(***************************************************************************)
InitField ==
    /\ field \in Fields
    /\ arg \in FieldInputs(field)
    /\ ret = <<>>
    /\ inv = <<>>
    /\ clients = <<>>
    /\ service = <<>>

ValidateField ==
    /\ field \in Fields
    /\ ret = <<>>
    /\ ret' = <<FieldValidate(field, arg)>>
    /\ UNCHANGED <<field, arg, inv, clients, service>>

SpecField == InitField /\ [][ValidateField]_vars


(***************************************************************************)
(* TrendsRequest: a bundle gives each of its fields as <<>> (omitted) or   *)
(* <<value>>, and names the unknown fields it carries in extra.  pydantic  *)
(* validates every field and collects every error; extra = "forbid" makes  *)
(* each unknown field an error.                                            *)
(***************************************************************************)
DefaultOf(f) ==
    CASE f = "cat" -> None
      [] f = "geo" -> None
      [] f = "tz" -> 0
      [] f = "timeframe" -> TODAY_5Y
      [] f = "gprop" -> ""

FieldOutcome(bundle, f) ==
    IF bundle[f] # <<>> THEN FieldValidate(f, bundle[f][1])
    ELSE IF f = "kw_list" THEN Raise(ErrMissing)
    ELSE Return(DefaultOf(f))

\* Mutant of TrendsRequest: unknown fields are ignored (extra = "ignore").
TrendsRequest_ignores_extra(bundle) ==
    LET errors == {<<f, FieldOutcome(bundle, f).error>> :
                        f \in {g \in Fields : ~FieldOutcome(bundle, g).ok}}
    IN  IF errors # {} THEN [ok |-> FALSE, errors |-> errors]
        ELSE [ok |-> TRUE,
              value |-> [f \in Fields |-> FieldOutcome(bundle, f).value]]

TrendsRequest(bundle) ==
    LET errors == {<<f, FieldOutcome(bundle, f).error>> :
                        f \in {g \in Fields : ~FieldOutcome(bundle, g).ok}}
                  \cup {<<x, ErrExtra>> : x \in bundle.extra}
    IN  IF errors # {} THEN [ok |-> FALSE, errors |-> errors]
        ELSE [ok |-> TRUE,
              value |-> [f \in Fields |-> FieldOutcome(bundle, f).value]]

(***************************************************************************)
(* Python dicts and "or".                                                  *)
(***************************************************************************)
DictKeys(d) == [j \in 1..Len(d) |-> d[j][1]]
DictHas(d, key) == \E j \in 1..Len(d) : d[j][1] = key
\* d.get(key, default)
DictGet(d, key, default) ==
    IF DictHas(d, key) THEN d[CHOOSE j \in 1..Len(d) : d[j][1] = key][2]
    ELSE default
\* d[key] = value
DictSet(d, key, value) ==
    IF DictHas(d, key)
    THEN [j \in 1..Len(d) |-> IF d[j][1] = key THEN <<key, value>> ELSE d[j]]
    ELSE Append(d, <<key, value>>)

\* x or default, for x that is None or a list or a dict
OrElse(x, default) == IF x = None \/ x[1] = <<>> THEN default ELSE x[1]

(***************************************************************************)
(* The pytrends client.  A TrendReq object keeps the payload that its last *)
(* successful build_payload stored, and related_queries reads it.          *)
(***************************************************************************)
TrendReq(tz) == [hl |-> "en-US", tz |-> tz, retries |-> 2, payload |-> None]

\* Mutant of create_pytrends: one module-level client, created on first use
\* and handed to every invocation.
create_pytrends_singleton(cs, tz) ==
    IF cs = <<>> THEN [clients |-> <<TrendReq(tz)>>, handle |-> 1]
    ELSE [clients |-> cs, handle |-> 1]

\* _create_pytrends(tz): a new TrendReq; cs is the store of the objects so far.
create_pytrends(cs, tz) ==
    [clients |-> Append(cs, TrendReq(tz)), handle |-> Len(cs) + 1]

\* pytrends.suggestions(keyword)
suggestions(cs, c, keyword) == service[keyword].suggestions

\* pytrends.build_payload(...): the outcome and the store afterwards.
build_payload(cs, c, payload) ==
    LET outcome == service[payload.kw_list[1]].build_payload
    IN  IF outcome.ok
        THEN [outcome |-> outcome,
              clients |-> [cs EXCEPT ![c].payload = Some(payload)]]
        ELSE [outcome |-> outcome, clients |-> cs]

\* pytrends.related_queries(): answers for the payload the client holds.
related_queries(cs, c) == service[cs[c].payload[1].kw_list[1]].related_queries

\* DataFrame.to_dict("records")
to_dict_records(df) ==
    [r \in 1..Len(df.data) |->
        [query |-> df.data[r][1], value |-> df.data[r][2]]]

(***************************************************************************)
(* The bodies of the two tools.                                            *)
(***************************************************************************)
\* Mutant of suggestions_entry: the count is taken after the truncation.
suggestions_entry_counts_truncated(outcome) ==
    IF outcome.ok
    THEN LET found == OrElse(outcome.value, <<>>)
         IN  [count |-> Len(Slice(found, MAX_RESULTS_PER_SECTION)),
              suggestions |-> Slice(found, MAX_RESULTS_PER_SECTION)]
    ELSE [error |-> outcome.error, suggestions |-> <<>>]

\* One keyword of keyword_suggestions: the try block and its except clause.
suggestions_entry(outcome) ==
    IF outcome.ok
    THEN LET found == OrElse(outcome.value, <<>>)
         IN  [count |-> Len(found),
              suggestions |-> Slice(found, MAX_RESULTS_PER_SECTION)]
    ELSE [error |-> outcome.error, suggestions |-> <<>>]

\* Mutant of section_records: the subset is not truncated.
section_records_untruncated(df) ==
    IF df # None THEN to_dict_records(df[1]) ELSE <<>>

\* data.get(name).to_dict("records")[:MAX] if data.get(name) is not None else []
section_records(df) ==
    IF df # None
    THEN Slice(to_dict_records(df[1]), MAX_RESULTS_PER_SECTION)
    ELSE <<>>

\* {} .get("top") and {} .get("rising") are None
EmptyData == [top |-> None, rising |-> None]

\* One keyword of related_queries after both calls succeeded.
related_entry(keyword, value) ==
    LET related == OrElse(value, <<>>)
        data == DictGet(related, keyword, EmptyData)
    IN  [top |-> section_records(data.top),
         rising |-> section_records(data.rising)]

\* The except clause of related_queries.
related_error_entry(e) == [error |-> e, top |-> <<>>, rising |-> <<>>]

\* Mutant of resume_after_except: the first exception ends the loop.
abort_after_except(k, n) == n + 1

\* The except clause is inside the for loop: after a keyword that failed,
\* the loop goes on with the next one (n is len(kw_list)).
resume_after_except(k, n) == k + 1

\* Mutant of envelope: success reports whether every keyword succeeded.
envelope_success_if_no_error(results) ==
    [success |-> \A j \in 1..Len(results) : "error" \notin DOMAIN results[j][2],
     results |-> results]

\* {"success": True, "results": results}
envelope(results) == [success |-> TRUE, results |-> results]

(***************************************************************************)
(* Tool invocations.  inv[i] is the frame of invocation i.                 *)
(***************************************************************************)
Tools == {"keyword_suggestions", "related_queries"}

\* The frame of a tool call that has just arrived with its raw bundle.
\* created and calls record the clients created and the external calls made.
Call(tool, bundle) ==
    [op |-> tool, request |-> bundle, pc |-> "called", kwargs |-> <<>>,
     errors |-> {}, pytrends |-> 0, results |-> <<>>, k |-> 0, out |-> None,
     created |-> <<>>, calls |-> <<>>]

\* @tool(args_schema=TrendsRequest): the bundle is validated before the
\* function is entered; a bundle that fails is rejected with its errors.
Validate(i) ==
    /\ inv[i].pc = "called"
    /\ LET model == TrendsRequest(inv[i].request)
       IN  inv' = IF model.ok
                  THEN [inv EXCEPT ![i].pc = "validated", ![i].kwargs = model.value]
                  ELSE [inv EXCEPT ![i].pc = "rejected", ![i].errors = model.errors]
    /\ UNCHANGED <<field, arg, ret, clients, service>>

\* pytrends = _create_pytrends(tz); results = {}
CreateClient(i) ==
    /\ inv[i].pc = "validated"
    /\ LET new == create_pytrends(clients, inv[i].kwargs.tz)
       IN  /\ clients' = new.clients
           /\ inv' = [inv EXCEPT ![i].pc = "loop", ![i].pytrends = new.handle,
                                 ![i].results = <<>>, ![i].k = 1,
                                 ![i].created = Append(@, new.handle)]
    /\ UNCHANGED <<field, arg, ret, service>>

\* One iteration of the loop of keyword_suggestions.
SuggestionsStep(i) ==
    /\ inv[i].op = "keyword_suggestions"
    /\ inv[i].pc = "loop"
    /\ inv[i].k <= Len(inv[i].kwargs.kw_list)
    /\ LET f == inv[i]
           n == Len(f.kwargs.kw_list)
           keyword == f.kwargs.kw_list[f.k]
           outcome == suggestions(clients, f.pytrends, keyword)
       IN  inv' = [inv EXCEPT
                ![i].results = DictSet(@, keyword, suggestions_entry(outcome)),
                ![i].k = IF outcome.ok THEN @ + 1 ELSE resume_after_except(@, n),
                ![i].calls = Append(@, [client |-> f.pytrends,
                                        call |-> "suggestions",
                                        payload |-> <<keyword>>])]
    /\ UNCHANGED <<field, arg, ret, clients, service>>

\* related_queries: pytrends.build_payload(kw_list=[keyword], ...)
BuildPayload(i) ==
    /\ inv[i].op = "related_queries"
    /\ inv[i].pc = "loop"
    /\ inv[i].k <= Len(inv[i].kwargs.kw_list)
    /\ LET f == inv[i]
           n == Len(f.kwargs.kw_list)
           keyword == f.kwargs.kw_list[f.k]
           payload == [kw_list |-> <<keyword>>,
                       timeframe |-> f.kwargs.timeframe,
                       geo |-> IF f.kwargs.geo = None THEN <<>> ELSE f.kwargs.geo[1],
                       gprop |-> f.kwargs.gprop,
                       cat |-> IF f.kwargs.cat = None THEN 0 ELSE f.kwargs.cat[1]]
           built == build_payload(clients, f.pytrends, payload)
           called == Append(f.calls, [client |-> f.pytrends,
                                      call |-> "build_payload",
                                      payload |-> payload.kw_list])
       IN  /\ clients' = built.clients
           /\ inv' = IF built.outcome.ok
                     THEN [inv EXCEPT ![i].pc = "built", ![i].calls = called]
                     ELSE [inv EXCEPT
                        ![i].results = DictSet(@, keyword,
                                         related_error_entry(built.outcome.error)),
                        ![i].k = resume_after_except(@, n),
                        ![i].calls = called]
    /\ UNCHANGED <<field, arg, ret, service>>

\* related_queries: related = pytrends.related_queries() or {} and the rest
\* of the iteration.
RelatedQueries(i) ==
    /\ inv[i].pc = "built"
    /\ LET f == inv[i]
           n == Len(f.kwargs.kw_list)
           keyword == f.kwargs.kw_list[f.k]
           outcome == related_queries(clients, f.pytrends)
       IN  inv' = [inv EXCEPT
                ![i].pc = "loop",
                ![i].results = DictSet(@, keyword,
                                 IF outcome.ok
                                 THEN related_entry(keyword, outcome.value)
                                 ELSE related_error_entry(outcome.error)),
                ![i].k = IF outcome.ok THEN @ + 1 ELSE resume_after_except(@, n),
                ![i].calls = Append(@, [client |-> f.pytrends,
                                        call |-> "related_queries",
                                        payload |-> clients[f.pytrends].payload[1].kw_list])]
    /\ UNCHANGED <<field, arg, ret, clients, service>>

\* return {"success": True, "results": results}
ReturnEnvelope(i) ==
    /\ inv[i].pc = "loop"
    /\ inv[i].k > Len(inv[i].kwargs.kw_list)
    /\ inv' = [inv EXCEPT ![i].pc = "returned",
                          ![i].out = Some(envelope(inv[i].results))]
    /\ UNCHANGED <<field, arg, ret, clients, service>>

Next ==
    \/ \E i \in DOMAIN inv : Validate(i)
    \/ \E i \in DOMAIN inv : CreateClient(i)
    \/ \E i \in DOMAIN inv : SuggestionsStep(i)
    \/ \E i \in DOMAIN inv : BuildPayload(i)
    \/ \E i \in DOMAIN inv : RelatedQueries(i)
    \/ \E i \in DOMAIN inv : ReturnEnvelope(i)

(***************************************************************************)
(* The external service, as the tools see it through pytrends.  For each   *)
(* keyword it fixes what suggestions, build_payload and related_queries    *)
(* do: raise, or return a value (None, or a list, or a dict of DataFrames).*)
(***************************************************************************)
Counts ==
    {0, 1, MAX_RESULTS_PER_SECTION - 1, MAX_RESULTS_PER_SECTION,
     MAX_RESULTS_PER_SECTION + 1, MAX_RESULTS_PER_SECTION + MaxExcess}

SuggestionList(p, n) == [r \in 1..n |-> [mid |-> r, title |-> p, type |-> "Topic"]]
DataFrame(p, section, n) ==
    [columns |-> <<"query", "value">>,
     data |-> [r \in 1..n |-> << <<p, section, r>>, 100 - r >>]]

ErrService == "The request failed: Google returned a response with code 429"
ErrTimeout == "HTTPSConnectionPool: Read timed out."

SuggestionsOutcomes(p) ==
    {Raise(ErrService), Return(None)}
        \cup {Return(Some(SuggestionList(p, n))) : n \in Counts}
Subsets(p, section) ==
    {None} \cup {Some(DataFrame(p, section, n)) : n \in Counts}
RelatedOutcomes(p) ==
    {Raise(ErrService), Return(None), Return(Some(<<>>))}
        \cup {Return(Some(<< <<p, [top |-> t, rising |-> r]>> >>)) :
                t \in Subsets(p, "top"), r \in Subsets(p, "rising")}

\* A service that answers every call for p with a few records.
Plain(p) ==
    [suggestions |-> Return(Some(SuggestionList(p, 1))),
     build_payload |-> Return(None),
     related_queries |->
        Return(Some(<< <<p, [top |-> Some(DataFrame(p, "top", 1)),
                            rising |-> Some(DataFrame(p, "rising", 1))]>> >>))]

\* What the service may do for keyword p when the tool is `tool`.
Behaviours(tool, p) ==
    IF tool = "keyword_suggestions"
    THEN {[Plain(p) EXCEPT !.suggestions = o] : o \in SuggestionsOutcomes(p)}
    ELSE {[Plain(p) EXCEPT !.build_payload = Raise(ErrTimeout)]}
            \cup {[Plain(p) EXCEPT !.related_queries = o] : o \in RelatedOutcomes(p)}

(***************************************************************************)
(* Spec: one invocation of either tool.  Either the bundle varies over     *)
(* valid and invalid values of every field and the service is plain, or    *)
(* the keyword list is valid and the service varies.                       *)
(***************************************************************************)
BundleOf(kws) ==
    [kw_list |-> Some(kws), cat |-> <<>>, geo |-> <<>>, tz |-> <<>>,
     timeframe |-> <<>>, gprop |-> <<>>, extra |-> {}]

Padded(kw) == <<" ">> \o kw \o <<"\t">>

Bundles ==
    [kw_list : {<<>>, Some(<<>>), Some(<<Tea>>), Some(<<Tea, Padded(Tea)>>),
                Some(<<Tea, TopicId>>), Some(<<TopicPrefix>>)},
     cat : {<<>>, Some(Some(71)), Some(Some(-1))},
     geo : {<<>>, Some(Some(<<"U", "S">>)), Some(Some(<<"u", "s", "a">>))},
     tz : {<<>>, Some(360), Some(10)},
     timeframe : {<<>>, Some(NowSp \o <<"7">> \o DashD),
                  Some(NowSp \o <<"3">> \o DashD)},
     gprop : {<<>>} \cup {Some(g) : g \in GpropInputs},
     extra : {{}, {"foo"}}]

ServedKeywords == {Tea, TopicId}

InitRequests ==
    /\ \E tool \in Tools : \E bundle \in Bundles : inv = <<Call(tool, bundle)>>
    /\ service = [p \in ServedKeywords |-> Plain(p)]

InitService ==
    /\ \E tool \in Tools :
          /\ \E kws \in {<<Tea, TopicId>>, <<TopicId, Padded(Tea), Tea>>} :
                inv = <<Call(tool, BundleOf(kws))>>
          /\ \E a \in Behaviours(tool, Tea) : \E b \in Behaviours(tool, TopicId) :
                service = (Tea :> a) @@ (TopicId :> b)

Init ==
    /\ field = ""
    /\ arg = <<>>
    /\ ret = <<>>
    /\ clients = <<>>
    /\ InitRequests \/ InitService

Spec == Init /\ [][Next]_vars

(***************************************************************************)
(* SpecConc: several invocations whose steps interleave.  Invocation i     *)
(* asks for the timezone offset 15 * i.                                    *)
(***************************************************************************)
MaxInvocations == 2

ConcBundles(i) ==
    {[BundleOf(kws) EXCEPT !.tz = Some(15 * i)] :
        kws \in {<<Tea, TopicId>>, <<TopicId, Tea>>}}

ConcServices ==
    { [p \in ServedKeywords |-> Plain(p)],
      (Tea :> [Plain(Tea) EXCEPT !.build_payload = Raise(ErrTimeout),
                                 !.suggestions = Raise(ErrService)])
        @@ (TopicId :> Plain(TopicId)) }

InitConc ==
    /\ field = ""
    /\ arg = <<>>
    /\ ret = <<>>
    /\ clients = <<>>
    /\ service \in ConcServices
    /\ inv \in {f \in [1..MaxInvocations -> UNION {{Call(tool, b) : tool \in Tools, b \in ConcBundles(i)} : i \in 1..MaxInvocations}] :
                    \A i \in 1..MaxInvocations : f[i].request.tz = Some(15 * i)}

SpecConc == InitConc /\ [][Next]_vars

(***************************************************************************)
(* Properties of the field validators (SpecField).                         *)
(***************************************************************************)
\* The outcome of validating field f, once there is one.
Validated(f) == field = f /\ ret # <<>>
Accepted(f) == Validated(f) /\ ret[1].ok
RejectedWith(f, msg) == Validated(f) /\ ret[1] = Raise(msg)

AllIn(s, S) == \A i \in 1..Len(s) : s[i] \in S

\* s without its leading and trailing whitespace: what lies between its
\* first and its last character that is not whitespace.
TrimOf(s) ==
    LET solid == {i \in 1..Len(s) : s[i] \notin Whitespace}
    IN  IF solid = {} THEN <<>>
        ELSE SubSeq(s, CHOOSE i \in solid : \A j \in solid : i <= j,
                       CHOOSE i \in solid : \A j \in solid : j <= i)

\* A plain keyword, or "/m/" followed by one or more of [A-Za-z0-9_-].
WellFormedKeyword(k) ==
    /\ k # <<>>
    /\ (Len(k) >= 3 /\ k[1] = "/" /\ k[2] = "m" /\ k[3] = "/") =>
          /\ Len(k) >= 4
          /\ \A i \in 4..Len(k) : k[i] \in Upper \cup Lower \cup Digit \cup {"_", "-"}

\* The positions of raw list v whose trimmed entry occurs at no earlier position.
FirstSeen(v) ==
    {i \in 1..Len(v) : \A j \in 1..(i - 1) : TrimOf(v[j]) # TrimOf(v[i])}

\* The k-th smallest element of a set of positions.
Kth(P, k) == CHOOSE i \in P : Cardinality({j \in P : j <= i}) = k

\* C4: a keyword list that validation accepts is normalized: 1 to 5 elements,
\* no duplicates, exactly the trimmed input entries in first-seen order with
\* later duplicates removed, every input entry (hence every element) non-empty
\* after trimming and, when it starts with "/m/", a well-formed topic ID.
C4_KwListNormalized ==
    Accepted("kw_list") =>
        LET out == ret[1].value
            first == FirstSeen(arg)
        IN  /\ 1 <= Len(out) /\ Len(out) <= 5
            /\ \A a, b \in 1..Len(out) : a # b => out[a] # out[b]
            /\ Len(out) = Cardinality(first)
            /\ \A k \in 1..Len(out) : out[k] = TrimOf(arg[Kth(first, k)])
            /\ \A k \in 1..Len(out) : WellFormedKeyword(out[k])
            /\ \A i \in 1..Len(arg) : \E k \in 1..Len(out) : out[k] = TrimOf(arg[i])

\* A list of max_items entries, one padded with whitespace, one a topic ID,
\* is accepted and comes out shorter because of a duplicate.
C4_Witness ==
    /\ Accepted("kw_list")
    /\ Len(arg) = max_items
    /\ Len(ret[1].value) < Len(arg)
    /\ \E i \in 1..Len(arg) : arg[i] # TrimOf(arg[i])
    /\ \E k \in 1..Len(ret[1].value) : ret[1].value[k] = TopicId

\* C8: a timezone offset is accepted iff it is a multiple of 15 between -720
\* and 840, bounds included.
C8_TzAcceptedIff ==
    Validated("tz") =>
        (ret[1].ok <=> \E k \in -48..56 : arg = 15 * k)

\* The negative offset -330 is validated and accepted unchanged.
C8_Witness ==
    /\ Accepted("tz")
    /\ arg = -330
    /\ ret[1].value = -330


\* YYYY-MM-DD and YYYY-MM-DDTHH, digit by digit.
DateShape(s) ==
    /\ Len(s) = 10
    /\ \A i \in 1..10 : IF i \in {5, 8} THEN s[i] = "-" ELSE s[i] \in Digit
DateHourShape(s) ==
    /\ Len(s) = 13
    /\ DateShape(SubSeq(s, 1, 10))
    /\ s[11] = "T" /\ s[12] \in Digit /\ s[13] \in Digit
\* Two dates, or two date-hours, separated by one space.
DateRangeShape(s) ==
    /\ Len(s) = 21
    /\ DateShape(SubSeq(s, 1, 10))
    /\ s[11] = " "
    /\ DateShape(SubSeq(s, 12, 21))
DateHourRangeShape(s) ==
    /\ Len(s) = 27
    /\ DateHourShape(SubSeq(s, 1, 13))
    /\ s[14] = " "
    /\ DateHourShape(SubSeq(s, 15, 27))

\* s is head, then one or more digits, then tail.
RelativeShape(s, head, tail) ==
    /\ Len(s) > Len(head) + Len(tail)
    /\ SubSeq(s, 1, Len(head)) = head
    /\ SubSeq(s, Len(s) - Len(tail) + 1, Len(s)) = tail
    /\ AllIn(SubSeq(s, Len(head) + 1, Len(s) - Len(tail)), Digit)

\* The digits of s between head and tail, leading zeros dropped.
RECURSIVE DropZeros(_)
DropZeros(n) == IF n # <<>> /\ Head(n) = "0" THEN DropZeros(Tail(n)) ELSE n
RelativeNumber(s, head, tail) ==
    DropZeros(SubSeq(s, Len(head) + 1, Len(s) - Len(tail)))

Numerals_1_3_12 == {<<"1">>, <<"3">>, <<"1", "2">>}
Numerals_1_7 == {<<"1">>, <<"7">>}
Numerals_1_4 == {<<"1">>, <<"4">>}

\* The forms the original claim lists, matched against the value as given.
ListedForm(v) ==
    \/ v \in {TODAY_5Y, ALL}
    \/ DateRangeShape(v)
    \/ DateHourRangeShape(v)
    \/ v \in {TodaySp \o n \o DashM : n \in Numerals_1_3_12}
    \/ v \in {NowSp \o n \o DashD : n \in Numerals_1_7}
    \/ v \in {NowSp \o n \o DashH : n \in Numerals_1_4}

\* C7 as claimed: a timeframe is accepted iff the value itself fully matches a
\* listed form, and a value of a relative form's shape with another number is
\* rejected with that form's error.
C7_AsClaimed ==
    Validated("timeframe") =>
        /\ ret[1].ok <=> ListedForm(arg)
        /\ (RelativeShape(arg, TodaySp, DashM) /\ ~ListedForm(arg))
              => ret[1] = Raise(ErrMonths)
        /\ (RelativeShape(arg, NowSp, DashD) /\ ~ListedForm(arg))
              => ret[1] = Raise(ErrDays)
        /\ (RelativeShape(arg, NowSp, DashH) /\ ~ListedForm(arg))
              => ret[1] = Raise(ErrHours)

\* The forms the validator accepts, matched against the trimmed value: the
\* number of a relative form is any run of digits whose value is in the set.
AcceptedForm(t) ==
    \/ t \in {TODAY_5Y, ALL}
    \/ DateRangeShape(t)
    \/ DateHourRangeShape(t)
    \/ RelativeShape(t, TodaySp, DashM) /\ RelativeNumber(t, TodaySp, DashM) \in Numerals_1_3_12
    \/ RelativeShape(t, NowSp, DashD) /\ RelativeNumber(t, NowSp, DashD) \in Numerals_1_7
    \/ RelativeShape(t, NowSp, DashH) /\ RelativeNumber(t, NowSp, DashH) \in Numerals_1_4

\* C7 (amended): a timeframe is accepted iff, with surrounding whitespace
\* trimmed, it fully matches an accepted form (leading zeros in the number of
\* a relative form allowed), and the trimmed value is what is returned; a
\* trimmed value of a relative form's shape with a number outside the form's
\* set is rejected with that form's own error, and every other rejected value
\* with the generic format error.
C7_TimeframeAcceptedIff ==
    Validated("timeframe") =>
        LET t == TrimOf(arg)
        IN  /\ ret[1].ok <=> AcceptedForm(t)
            /\ ret[1].ok => ret[1].value = t
            /\ (RelativeShape(t, TodaySp, DashM) /\ ~AcceptedForm(t))
                  => ret[1] = Raise(ErrMonths)
            /\ (RelativeShape(t, NowSp, DashD) /\ ~AcceptedForm(t))
                  => ret[1] = Raise(ErrDays)
            /\ (RelativeShape(t, NowSp, DashH) /\ ~AcceptedForm(t))
                  => ret[1] = Raise(ErrHours)
            /\ ( /\ ~AcceptedForm(t)
                 /\ ~RelativeShape(t, TodaySp, DashM)
                 /\ ~RelativeShape(t, NowSp, DashD)
                 /\ ~RelativeShape(t, NowSp, DashH) )
                  => ret[1] = Raise(ErrTimeframe)

\* " now 3-d" (padded) has been rejected with the days error.
C7_Witness ==
    /\ RejectedWith("timeframe", ErrDays)
    /\ arg = <<" ">> \o NowSp \o <<"3">> \o DashD


(***************************************************************************)
(* Properties of the tools (Spec).                                         *)
(***************************************************************************)
Invocations == DOMAIN inv
Returned(i) == inv[i].pc = "returned"

\* The first n elements of s, or all of s when it has fewer.
FirstN(s, n) == [q \in 1..(IF Len(s) < n THEN Len(s) ELSE n) |-> s[q]]

\* What the service returns for keyword p, None read as nothing returned.
SuggestionsReturned(p) ==
    LET o == service[p].suggestions
    IN  IF o.value = None THEN <<>> ELSE o.value[1]
\* The rows of the subset the service returns for p under `section`, as
\* records; <<>> with Absent when there is no such subset.
SubsetAbsent(p, section) ==
    LET o == service[p].related_queries
    IN  \/ o.value = None
        \/ ~DictHas(o.value[1], p)
        \/ DictGet(o.value[1], p, EmptyData)[section] = None
SubsetRecords(p, section) ==
    LET df == DictGet(service[p].related_queries.value[1], p, EmptyData)[section][1]
    IN  [r \in 1..Len(df.data) |-> [query |-> df.data[r][1], value |-> df.data[r][2]]]

\* The external call(s) of `tool` for keyword p throw, and with what message.
Throws(tool, p) ==
    IF tool = "keyword_suggestions" THEN ~service[p].suggestions.ok
    ELSE ~service[p].build_payload.ok \/ ~service[p].related_queries.ok
Thrown(tool, p) ==
    IF tool = "keyword_suggestions" THEN service[p].suggestions.error
    ELSE IF ~service[p].build_payload.ok THEN service[p].build_payload.error
    ELSE service[p].related_queries.error

\* The result of keyword p when its calls succeed; it depends on nothing
\* but what the service returns for p.
SuccessEntry(tool, p) ==
    IF tool = "keyword_suggestions"
    THEN [count |-> Len(SuggestionsReturned(p)),
          suggestions |-> FirstN(SuggestionsReturned(p), 10)]
    ELSE [top |-> IF SubsetAbsent(p, "top") THEN <<>>
                  ELSE FirstN(SubsetRecords(p, "top"), 10),
          rising |-> IF SubsetAbsent(p, "rising") THEN <<>>
                     ELSE FirstN(SubsetRecords(p, "rising"), 10)]

\* An 'error' string and only empty record lists.
ErrorShaped(tool, r, msg) ==
    /\ DOMAIN r = (IF tool = "keyword_suggestions" THEN {"error", "suggestions"}
                   ELSE {"error", "top", "rising"})
    /\ r.error = msg
    /\ \A key \in DOMAIN r \ {"error"} : r[key] = <<>>

\* C1: a returned envelope has success = TRUE; every keyword whose external
\* call throws has an error-shaped result carrying the message, and every
\* other keyword has its success-shaped result without an 'error' key,
\* whatever the other keywords did.
C1_FailureIsolation ==
    \A i \in Invocations : Returned(i) =>
        LET f == inv[i]
            env == f.out[1]
        IN  /\ env.success = TRUE
            /\ \A j \in 1..Len(f.kwargs.kw_list) :
                  LET p == f.kwargs.kw_list[j]
                      r == DictGet(env.results, p, <<>>)
                  IN  /\ DictHas(env.results, p)
                      /\ IF Throws(f.op, p)
                         THEN ErrorShaped(f.op, r, Thrown(f.op, p))
                         ELSE "error" \notin DOMAIN r /\ r = SuccessEntry(f.op, p)

\* related_queries has returned after its first keyword failed and a later
\* one succeeded with records.
C1_Witness ==
    \E i \in Invocations :
        /\ Returned(i)
        /\ inv[i].op = "related_queries"
        /\ Len(inv[i].kwargs.kw_list) = 2
        /\ Throws(inv[i].op, inv[i].kwargs.kw_list[1])
        /\ ~Throws(inv[i].op, inv[i].kwargs.kw_list[2])
        /\ "error" \in DOMAIN inv[i].out[1].results[1][2]
        /\ Len(inv[i].out[1].results[2][2].top) = 10

\* C2: an invocation that passed validation is never stuck before it returns,
\* its results hold one entry per keyword processed so far, in order, and the
\* envelope it returns has exactly the validated keywords as its keys, in the
\* order of kw_list.
C2_OneResultPerKeyword ==
    \A i \in Invocations :
        LET f == inv[i]
        IN  /\ f.pc \in {"validated", "loop", "built"} =>
                  /\ ENABLED Next
                  /\ DictKeys(f.results) = SubSeq(f.kwargs.kw_list, 1, f.k - 1)
            /\ Returned(i) =>
                  /\ DictKeys(f.out[1].results) = f.kwargs.kw_list
                  /\ Len(f.out[1].results) = Len(f.kwargs.kw_list)

\* keyword_suggestions has returned for three raw entries that validate to two
\* keywords, the first of which failed.
C2_Witness ==
    \E i \in Invocations :
        /\ Returned(i)
        /\ inv[i].op = "keyword_suggestions"
        /\ Len(inv[i].request.kw_list[1]) = 3
        /\ Len(inv[i].out[1].results) = 2
        /\ "error" \in DOMAIN inv[i].out[1].results[1][2]
        /\ "error" \notin DOMAIN inv[i].out[1].results[2][2]


\* The field rules, stated on the raw bundle.
KwListRule(b) ==
    /\ b.kw_list # <<>>
    /\ Len(b.kw_list[1]) >= 1 /\ Len(b.kw_list[1]) <= 5
    /\ \A j \in 1..Len(b.kw_list[1]) : WellFormedKeyword(TrimOf(b.kw_list[1][j]))
CatRule(b) == b.cat = <<>> \/ b.cat[1] = None \/ b.cat[1][1] >= 0
GeoRule(b) ==
    \/ b.geo = <<>>
    \/ b.geo[1] = None
    \/ LET g == b.geo[1][1]
       IN  \/ Len(g) = 2 /\ AllIn(g, Upper)
           \/ /\ Len(g) >= 5 /\ Len(g) <= 8
              /\ AllIn(SubSeq(g, 1, 2), Upper)
              /\ g[3] = "-"
              /\ AllIn(SubSeq(g, 4, Len(g)), Upper)
TzRule(b) == b.tz = <<>> \/ \E k \in -48..56 : b.tz[1] = 15 * k
TimeframeRule(b) == b.timeframe = <<>> \/ AcceptedForm(TrimOf(b.timeframe[1]))
GpropRule(b) ==
    b.gprop = <<>> \/ b.gprop[1] \in {"", "images", "news", "youtube", "froogle"}

FailsValidation(b) ==
    \/ b.extra # {}
    \/ ~KwListRule(b) \/ ~CatRule(b) \/ ~GeoRule(b)
    \/ ~TzRule(b) \/ ~TimeframeRule(b) \/ ~GpropRule(b)

\* C3: an invocation whose bundle violates a field rule or carries an unknown
\* field is rejected once validated, and never creates a client, issues an
\* external call or returns an envelope; an invocation that has a client or
\* has issued a call holds the fully validated parameters.
C3_NoCallBeforeValidation ==
    \A i \in Invocations :
        LET f == inv[i]
        IN  /\ FailsValidation(f.request) =>
                  /\ f.pc \in {"called", "rejected"}
                  /\ f.pc = "rejected" => f.errors # {}
                  /\ f.pytrends = 0 /\ f.created = <<>> /\ f.calls = <<>>
                  /\ f.out = None
            /\ (f.pytrends # 0 \/ f.created # <<>> \/ f.calls # <<>>) =>
                  /\ ~FailsValidation(f.request)
                  /\ f.pc \in {"loop", "built", "returned"}
                  /\ DOMAIN f.kwargs = Fields
            /\ (\A j \in Invocations : FailsValidation(inv[j].request)) => clients = <<>>

\* A bundle that is valid but for the unknown field foo has been rejected,
\* with foo as its only error.
C3_Witness ==
    \E i \in Invocations :
        /\ inv[i].pc = "rejected"
        /\ inv[i].request.extra = {"foo"}
        /\ inv[i].request.kw_list = Some(<<Tea, TopicId>>)
        /\ inv[i].errors = {<<"foo", ErrExtra>>}
        /\ clients = <<>>

\* C5: in related_queries, the result of a keyword whose calls succeeded has,
\* under 'top' and under 'rising', the first min(n, 10) records of the subset
\* the service returned, in its order, and <<>> when the subset is absent.
C5_RelatedSections ==
    \A i \in Invocations : inv[i].op = "related_queries" =>
        \A j \in 1..Len(inv[i].results) :
            LET p == inv[i].results[j][1]
                r == inv[i].results[j][2]
            IN  ~Throws("related_queries", p) =>
                  /\ DOMAIN r = {"top", "rising"}
                  /\ \A section \in {"top", "rising"} :
                        IF SubsetAbsent(p, section) THEN r[section] = <<>>
                        ELSE LET records == SubsetRecords(p, section)
                                 n == Len(records)
                             IN  /\ Len(r[section]) = (IF n < 10 THEN n ELSE 10)
                                 /\ \A q \in 1..Len(r[section]) :
                                        r[section][q] = records[q]

\* A 'top' subset of 15 records and no 'rising' subset gave the first 10
\* records and an empty list.
C5_Witness ==
    \E i \in Invocations : \E j \in 1..Len(inv[i].results) :
        LET p == inv[i].results[j][1]
            r == inv[i].results[j][2]
        IN  /\ inv[i].op = "related_queries"
            /\ ~Throws("related_queries", p)
            /\ ~SubsetAbsent(p, "top") /\ Len(SubsetRecords(p, "top")) = 15
            /\ SubsetAbsent(p, "rising")
            /\ Len(r.top) = 10 /\ r.top[10] = SubsetRecords(p, "top")[10]
            /\ r.rising = <<>>

\* C6: in keyword_suggestions, the result of a keyword whose call succeeded
\* has count = the number n of records returned (0 for None) and suggestions
\* = the first min(n, 10) of them in order.
C6_SuggestionsCount ==
    \A i \in Invocations : inv[i].op = "keyword_suggestions" =>
        \A j \in 1..Len(inv[i].results) :
            LET p == inv[i].results[j][1]
                r == inv[i].results[j][2]
                returned == SuggestionsReturned(p)
                n == Len(returned)
            IN  service[p].suggestions.ok =>
                  /\ DOMAIN r = {"count", "suggestions"}
                  /\ r.count = n
                  /\ Len(r.suggestions) = (IF n < 10 THEN n ELSE 10)
                  /\ \A q \in 1..Len(r.suggestions) : r.suggestions[q] = returned[q]
                  /\ Len(r.suggestions) <= 10 /\ Len(r.suggestions) <= r.count

\* 15 suggestions were returned: count is 15 and 10 are kept.
C6_Witness ==
    \E i \in Invocations : \E j \in 1..Len(inv[i].results) :
        /\ inv[i].op = "keyword_suggestions"
        /\ "count" \in DOMAIN inv[i].results[j][2]
        /\ inv[i].results[j][2].count = 15
        /\ Len(inv[i].results[j][2].suggestions) = 10

\* The gprop rule for a set S of allowed values: once the bundle is validated,
\* gprop is in error iff it is given and not in S, such a request is rejected,
\* and an accepted request carries the given value, or "" when none is given.
GpropAcceptedIff(S) ==
    \A i \in Invocations : inv[i].pc # "called" =>
        LET f == inv[i]
            given == f.request.gprop
        IN  /\ (\E e \in f.errors : e[1] = "gprop") <=> (given # <<>> /\ given[1] \notin S)
            /\ (given # <<>> /\ given[1] \notin S) => f.pc = "rejected"
            /\ f.pc # "rejected" =>
                  f.kwargs.gprop = (IF given = <<>> THEN "" ELSE given[1])

\* C9 as claimed: gprop is accepted iff it is one of "", "images", "news",
\* "video", "shopping", and defaults to "".
C9_AsClaimed == GpropAcceptedIff({"", "images", "news", "video", "shopping"})

\* C9 (amended): gprop is accepted iff it is one of "", "images", "news",
\* "youtube", "froogle"; it defaults to "" when omitted and any other value
\* causes the request to be rejected.
C9_GpropAcceptedIff == GpropAcceptedIff({"", "images", "news", "youtube", "froogle"})

\* A request with gprop = "youtube" has been accepted and has run to its end.
C9_Witness ==
    \E i \in Invocations :
        /\ Returned(i)
        /\ inv[i].request.gprop = Some("youtube")
        /\ inv[i].kwargs.gprop = "youtube"

(***************************************************************************)
(* Properties of concurrent invocations (SpecConc).                        *)
(***************************************************************************)
\* The envelope invocation i returns when it runs alone against the service.
Alone(i) ==
    LET kws == inv[i].kwargs.kw_list
        tool == inv[i].op
    IN  [success |-> TRUE,
         results |-> [j \in 1..Len(kws) |->
            <<kws[j],
              IF ~Throws(tool, kws[j]) THEN SuccessEntry(tool, kws[j])
              ELSE IF tool = "keyword_suggestions"
                   THEN [error |-> Thrown(tool, kws[j]), suggestions |-> <<>>]
              ELSE [error |-> Thrown(tool, kws[j]), top |-> <<>>, rising |-> <<>>]>>]]

\* C10: an invocation creates one client, with its own timezone offset, which
\* no other invocation holds; all its external calls go through that client,
\* each related_queries call reads the payload the invocation itself built
\* just before, and the envelope it returns is the one it returns alone.
C10_Isolation ==
    \A i \in Invocations :
        LET f == inv[i]
        IN  /\ Len(f.created) <= 1
            /\ f.pc \in {"loop", "built", "returned"} =>
                  /\ f.created = <<f.pytrends>>
                  /\ clients[f.pytrends].tz = f.kwargs.tz
                  /\ f.kwargs.tz = f.request.tz[1]
            /\ \A q \in 1..Len(f.calls) : f.calls[q].client = f.pytrends
            /\ \A j \in Invocations \ {i} :
                  f.pytrends # 0 => inv[j].pytrends # f.pytrends
            /\ \A q \in 1..Len(f.calls) : f.calls[q].call = "related_queries" =>
                  /\ f.calls[q - 1].call = "build_payload"
                  /\ f.calls[q].payload = f.calls[q - 1].payload
            /\ Returned(i) => f.out = Some(Alone(i))

\* Two related_queries invocations are both between build_payload and
\* related_queries, each holding a payload for a different keyword, after one
\* of them has already stored a result.
C10_Witness ==
    \E i, j \in Invocations :
        /\ i # j
        /\ inv[i].pc = "built" /\ inv[j].pc = "built"
        /\ clients[inv[i].pytrends].payload # clients[inv[j].pytrends].payload
        /\ clients[inv[i].pytrends].tz # clients[inv[j].pytrends].tz
        /\ inv[i].results # <<>>

=============================================================================
